---- MODULE Spec2Model ----
(***************************************************************************)
(* Coupon Management API (src/coupons.py): the coupons collection, one     *)
(* customer document (cart, tier, exclusive_coupons, coupon_history) and   *)
(* the handlers that create coupons, edit the cart, list the applicable    *)
(* coupons and apply one.                                                  *)
(*                                                                         *)
(* Money.  The source computes in binary floating point; the model uses    *)
(* exact integers.  Prices, subtotals, thresholds and max_discount are     *)
(* whole currency units; every discount (calculated_discount,              *)
(* discount_amount) and final_total is held in hundredths of a unit, so    *)
(* x * (pct / 100) of the source is x * pct here and a value v in units is *)
(* v * Scale in hundredths.  Floating-point rounding is not modelled.      *)
(*                                                                         *)
(* Optional values.  Python's None is the empty tuple, a present value v   *)
(* is <<v>>.  A key that is missing from a stored document is a field      *)
(* missing from the record.                                                *)
(***************************************************************************)
EXTENDS Integers, Sequences, FiniteSets, TLC

VARIABLES
    coupons,            \* coupons_collection, in insertion (find) order
    cart,               \* customer["cart"]: product_id -> cart item
    tier,               \* customer["tier"]
    exclusive_coupons,  \* customer["exclusive_coupons"]: coupon_id -> uses left
    coupon_history,     \* customer["coupon_history"]
    now,                \* the clock read by datetime.now()
    response,           \* the last HTTP response
    calls               \* the apply_coupon requests in flight, each with its locals

vars == <<coupons, cart, tier, exclusive_coupons, coupon_history, now, response, calls>>

-----------------------------------------------------------------------------
(* Bounds of the model *)

MaxQty == 2         \* largest quantity a cart request carries
MaxHistory == 2     \* applies after which apply_coupon is no longer called
MaxUnits == 3       \* largest buy_units tried when comparing allocations
MaxCalls == 2       \* apply_coupon requests that run concurrently
InitialUses == 1    \* uses left of the exclusive coupon when they start

Scale == 100        \* the 100 of "discount_percentage / 100"

None == << >>
Some(v) == <<v>>

Min2(a, b) == IF b < a THEN b ELSE a

Range(s) == {s[i] : i \in 1..Len(s)}

-----------------------------------------------------------------------------
(* Inputs: the products, the customer and the requests the handlers get *)

Products == {"p1", "p2", "p3"}          \* products_collection
RequestProductIds == Products \cup {"p9"}
Prices == {1, 2}
Quantities == 0..MaxQty
TheCustomer == "cust"
RequestCustomerIds == {TheCustomer, "nobody"}
Tiers == {"Basic", "Silver"}
AllTiers == {"Basic", "Silver", "Gold", "Platinum"}

\* ascending order of the product ids as strings
PidRank == [p \in Products |-> CASE p = "p1" -> 1 [] p = "p2" -> 2 [] p = "p3" -> 3]

CartItem(product_id, quantity, price) ==
    [product_id |-> product_id, quantity |-> quantity, price |-> price,
     subtotal |-> quantity * price]

EmptyCart == [p \in {} |-> CartItem("p1", 0, 1)]

-----------------------------------------------------------------------------
(* The discount computations shared by get_applicable_coupons and          *)
(* apply_coupon (the source repeats the same code in both handlers)        *)

Value(v) == [raised |-> FALSE, value |-> v]
TypeError == [raised |-> TRUE, value |-> 0]

RECURSIVE SumSubtotals(_, _)
SumSubtotals(c, S) ==
    IF S = {} THEN 0
    ELSE LET p == CHOOSE x \in S : TRUE
         IN c[p].subtotal + SumSubtotals(c, S \ {p})

\* cart_total = sum(item["subtotal"] for item in cart_items)
CartTotal(c) == SumSubtotals(c, DOMAIN c)

\* CartWiseDiscount with the cap forgotten
CartWiseDiscountUncapped(cart_total, details) ==
    IF "max_discount" \in DOMAIN details /\ details.max_discount = None THEN TypeError
    ELSE Value(cart_total * details.discount_percentage)

\* min(cart_total * (discount_percentage / 100), details.get("max_discount", inf)),
\* in hundredths.  A missing key gives inf; a stored None makes min() raise.
CartWiseDiscount(cart_total, details) ==
    LET share == cart_total * details.discount_percentage
    IN IF "max_discount" \notin DOMAIN details THEN Value(share)
       ELSE IF details.max_discount = None THEN TypeError
       ELSE Value(Min2(share, details.max_discount[1] * Scale))

\* details.get("min_quantity", 1)
MinQuantity(details) ==
    IF "min_quantity" \in DOMAIN details THEN details.min_quantity ELSE 1

\* for product_id in details["product_ids"]: ... discount += subtotal * (pct / 100)
RECURSIVE ProductWiseLoop(_, _, _, _)
ProductWiseLoop(c, details, i, discount) ==
    IF i > Len(details.product_ids) THEN discount
    ELSE LET product_id == details.product_ids[i]
         IN IF product_id \in DOMAIN c /\ c[product_id].quantity >= MinQuantity(details)
            THEN ProductWiseLoop(c, details, i + 1,
                     discount + c[product_id].subtotal * details.discount_percentage)
            ELSE ProductWiseLoop(c, details, i + 1, discount)

\* ProductWiseDiscount when one listed product that does not qualify disqualifies the coupon
ProductWiseDiscountAllOrNothing(c, details) ==
    IF \A i \in 1..Len(details.product_ids) :
           /\ details.product_ids[i] \in DOMAIN c
           /\ c[details.product_ids[i]].quantity >= MinQuantity(details)
    THEN ProductWiseLoop(c, details, 1, 0)
    ELSE 0

ProductWiseDiscount(c, details) == ProductWiseLoop(c, details, 1, 0)

\* eligible_buy_products: a dict product_id -> quantity over the buy products in the cart
EligibleBuyProducts(c, details) ==
    [p \in (Range(details.buy_products) \cap DOMAIN c) |-> c[p].quantity]

\* eligible_get_products: a dict; its keys in insertion order (a key assigned
\* again keeps its first position)
RECURSIVE EligibleGetLoop(_, _, _, _)
EligibleGetLoop(c, ids, i, keys) ==
    IF i > Len(ids) THEN keys
    ELSE IF ids[i] \in DOMAIN c /\ ids[i] \notin Range(keys)
         THEN EligibleGetLoop(c, ids, i + 1, Append(keys, ids[i]))
         ELSE EligibleGetLoop(c, ids, i + 1, keys)

EligibleGetProducts(c, details) == EligibleGetLoop(c, details.get_products, 1, << >>)

RECURSIVE SumQuantities(_, _)
SumQuantities(f, S) ==
    IF S = {} THEN 0
    ELSE LET p == CHOOSE x \in S : TRUE
         IN f[p] + SumQuantities(f, S \ {p})

\* if details.get("repetition_limit"): a missing key, None and 0 are all false
RepetitionLimitSet(details) ==
    /\ "repetition_limit" \in DOMAIN details
    /\ details.repetition_limit # None
    /\ details.repetition_limit[1] # 0

\* buy_units = total_buy_quantity // buy_quantity, then the repetition limit
BuyUnits(eligible_buy_products, details) ==
    LET total_buy_quantity == SumQuantities(eligible_buy_products, DOMAIN eligible_buy_products)
        buy_units == total_buy_quantity \div details.buy_quantity
    IN IF RepetitionLimitSet(details)
       THEN Min2(buy_units, details.repetition_limit[1])
       ELSE buy_units

\* total_get_units = buy_units * get_quantity
TotalGetUnits(buy_units, details) == buy_units * details.get_quantity

\* InsertByPrice as an unstable sort would do it: before the items of equal price
RECURSIVE InsertByPriceUnstable(_, _)
InsertByPriceUnstable(sorted, item) ==
    IF sorted = << >> THEN <<item>>
    ELSE IF item.price <= Head(sorted).price THEN <<item>> \o sorted
    ELSE <<Head(sorted)>> \o InsertByPriceUnstable(Tail(sorted), item)

\* sorted(..., key=lambda x: x[1]): Python's sort is stable, so equal prices
\* keep the order of the list that is sorted
RECURSIVE InsertByPrice(_, _)
InsertByPrice(sorted, item) ==
    IF sorted = << >> THEN <<item>>
    ELSE IF item.price < Head(sorted).price THEN <<item>> \o sorted
    ELSE <<Head(sorted)>> \o InsertByPrice(Tail(sorted), item)

RECURSIVE SortedLoop(_, _, _, _)
SortedLoop(c, keys, i, sorted) ==
    IF i > Len(keys) THEN sorted
    ELSE SortedLoop(c, keys, i + 1,
             InsertByPrice(sorted, [pid |-> keys[i], price |-> c[keys[i]].price]))

SortedGetProducts(c, keys) == SortedLoop(c, keys, 1, << >>)

\* AllocationLoop with "discount +=" written as "discount ="
RECURSIVE AllocationLoopAssign(_, _, _, _, _, _)
AllocationLoopAssign(c, sorted, i, total_get_units, details, st) ==
    IF i > Len(sorted) THEN st
    ELSE LET pid == sorted[i].pid
             price == sorted[i].price
             units_to_discount == Min2(c[pid].quantity, total_get_units - st.units_discounted)
         IN IF units_to_discount > 0
            THEN LET after ==
                        [discount |-> units_to_discount * price * details.discount_percentage,
                         units_discounted |-> st.units_discounted + units_to_discount,
                         steps |-> Append(st.steps,
                                      [pid |-> pid, price |-> price,
                                       units_to_discount |-> units_to_discount,
                                       units_discounted |-> st.units_discounted + units_to_discount])]
                 IN IF after.units_discounted >= total_get_units
                    THEN after
                    ELSE AllocationLoopAssign(c, sorted, i + 1, total_get_units, details, after)
            ELSE AllocationLoopAssign(c, sorted, i + 1, total_get_units, details, st)

\* AllocationLoop with "total_get_units - units_discounted" written as total_get_units
RECURSIVE AllocationLoopNoRemainder(_, _, _, _, _, _)
AllocationLoopNoRemainder(c, sorted, i, total_get_units, details, st) ==
    IF i > Len(sorted) THEN st
    ELSE LET pid == sorted[i].pid
             price == sorted[i].price
             units_to_discount == Min2(c[pid].quantity, total_get_units)
         IN IF units_to_discount > 0
            THEN LET after ==
                        [discount |-> st.discount
                                      + units_to_discount * price * details.discount_percentage,
                         units_discounted |-> st.units_discounted + units_to_discount,
                         steps |-> Append(st.steps,
                                      [pid |-> pid, price |-> price,
                                       units_to_discount |-> units_to_discount,
                                       units_discounted |-> st.units_discounted + units_to_discount])]
                 IN IF after.units_discounted >= total_get_units
                    THEN after
                    ELSE AllocationLoopNoRemainder(c, sorted, i + 1, total_get_units, details, after)
            ELSE AllocationLoopNoRemainder(c, sorted, i + 1, total_get_units, details, st)

\* for pid, price in sorted_get_products: ... ; the state of the loop is
\* discount, units_discounted and, for the record, the allocations made
RECURSIVE AllocationLoop(_, _, _, _, _, _)
AllocationLoop(c, sorted, i, total_get_units, details, st) ==
    IF i > Len(sorted) THEN st
    ELSE LET pid == sorted[i].pid
             price == sorted[i].price
             available_units == c[pid].quantity
             units_to_discount == Min2(available_units, total_get_units - st.units_discounted)
         IN IF units_to_discount > 0
            THEN LET after ==
                        [discount |-> st.discount
                                      + units_to_discount * price * details.discount_percentage,
                         units_discounted |-> st.units_discounted + units_to_discount,
                         steps |-> Append(st.steps,
                                      [pid |-> pid, price |-> price,
                                       units_to_discount |-> units_to_discount,
                                       units_discounted |-> st.units_discounted + units_to_discount])]
                 IN IF after.units_discounted >= total_get_units
                    THEN after
                    ELSE AllocationLoop(c, sorted, i + 1, total_get_units, details, after)
            ELSE AllocationLoop(c, sorted, i + 1, total_get_units, details, st)

\* the allocation for a given buy_units: total_get_units, the sort and the loop
Allocation(c, keys, buy_units, details) ==
    AllocationLoop(c, SortedGetProducts(c, keys), 1, TotalGetUnits(buy_units, details),
                   details, [discount |-> 0, units_discounted |-> 0, steps |-> << >>])

NoAllocation == [discount |-> 0, units_discounted |-> 0, steps |-> << >>]

\* the whole bxgy branch: what it computed on the way and the discount it left
BxGy(c, details) ==
    LET eligible_buy_products == EligibleBuyProducts(c, details)
        eligible_get_products == EligibleGetProducts(c, details)
        eligible == DOMAIN eligible_buy_products # {} /\ eligible_get_products # << >>
        buy_units == IF eligible THEN BuyUnits(eligible_buy_products, details) ELSE 0
        entered == eligible /\ buy_units > 0
        alloc == IF entered
                 THEN Allocation(c, eligible_get_products, buy_units, details)
                 ELSE NoAllocation
    IN [eligible |-> eligible,
        buy_units |-> buy_units,
        entered |-> entered,
        total_get_units |-> IF entered THEN TotalGetUnits(buy_units, details) ELSE 0,
        sorted_get_products |-> IF entered THEN SortedGetProducts(c, eligible_get_products)
                                ELSE << >>,
        units_discounted |-> alloc.units_discounted,
        steps |-> alloc.steps,
        discount |-> alloc.discount]

-----------------------------------------------------------------------------
(* get_applicable_coupons *)

\* the query of coupons_collection.find: active, inside the validity window,
\* and listing the customer's tier
MatchesQuery(coupon, customer_tier, t) ==
    /\ coupon.is_active
    /\ coupon.valid_from <= t
    /\ (coupon.valid_until = None \/ coupon.valid_until[1] >= t)
    /\ customer_tier \in coupon.user_tiers

Skip == [raised |-> FALSE, append |-> FALSE, calculated_discount |-> 0]
AppendWith(d) == [raised |-> FALSE, append |-> TRUE, calculated_discount |-> d]
Raise == [raised |-> TRUE, append |-> FALSE, calculated_discount |-> 0]

\* the body of "for coupon in all_coupons" for one coupon
ListEvaluate(c, cart_total, coupon) ==
    IF coupon.type = "cart-wise" THEN
        IF cart_total >= coupon.details.threshold
        THEN LET d == CartWiseDiscount(cart_total, coupon.details)
             IN IF d.raised THEN Raise ELSE AppendWith(d.value)
        ELSE Skip
    ELSE IF coupon.type = "product-wise" THEN
        LET product_discount == ProductWiseDiscount(c, coupon.details)
        IN IF product_discount > 0 THEN AppendWith(product_discount) ELSE Skip
    ELSE IF coupon.type = "bxgy" THEN
        LET b == BxGy(c, coupon.details)
        IN IF b.entered /\ b.discount > 0 THEN AppendWith(b.discount) ELSE Skip
    ELSE Skip

Listed(coupon, d) ==
    [coupon_id |-> coupon.coupon_id, type |-> coupon.type, calculated_discount |-> d]

\* the loop over all_coupons: an exception ends the request
RECURSIVE ListLoop(_, _, _, _, _)
ListLoop(c, cart_total, all_coupons, i, applicable_coupons) ==
    IF i > Len(all_coupons) THEN [raised |-> FALSE, applicable_coupons |-> applicable_coupons]
    ELSE LET e == ListEvaluate(c, cart_total, all_coupons[i])
         IN IF e.raised THEN [raised |-> TRUE, applicable_coupons |-> << >>]
            ELSE ListLoop(c, cart_total, all_coupons, i + 1,
                     IF e.append
                     THEN Append(applicable_coupons, Listed(all_coupons[i], e.calculated_discount))
                     ELSE applicable_coupons)

\* InsertByDiscount as an unstable sort would do it: before the equal discounts
RECURSIVE InsertByDiscountUnstable(_, _)
InsertByDiscountUnstable(sorted, item) ==
    IF sorted = << >> THEN <<item>>
    ELSE IF item.calculated_discount >= Head(sorted).calculated_discount
         THEN <<item>> \o sorted
         ELSE <<Head(sorted)>> \o InsertByDiscountUnstable(Tail(sorted), item)

\* applicable_coupons.sort(key=calculated_discount, reverse=True): stable, so
\* an element goes behind every one whose discount is not smaller
RECURSIVE InsertByDiscount(_, _)
InsertByDiscount(sorted, item) ==
    IF sorted = << >> THEN <<item>>
    ELSE IF item.calculated_discount > Head(sorted).calculated_discount
         THEN <<item>> \o sorted
         ELSE <<Head(sorted)>> \o InsertByDiscount(Tail(sorted), item)

RECURSIVE SortLoop(_, _, _)
SortLoop(seq, i, sorted) ==
    IF i > Len(seq) THEN sorted
    ELSE SortLoop(seq, i + 1, InsertByDiscount(sorted, seq[i]))

SortByDiscount(seq) == SortLoop(seq, 1, << >>)

AllCoupons == SelectSeq(coupons, LAMBDA coupon : MatchesQuery(coupon, tier, now))

ListResponse(status, body) ==
    [handler |-> "get_applicable_coupons", status |-> status, applicable_coupons |-> body]

GetApplicableCoupons(customer_id) ==
    /\ response' =
         IF customer_id # TheCustomer THEN ListResponse(404, << >>)
         ELSE IF DOMAIN cart = {} THEN ListResponse(200, << >>)
         ELSE LET r == ListLoop(cart, CartTotal(cart), AllCoupons, 1, << >>)
              IN IF r.raised THEN ListResponse(500, << >>)
                 ELSE ListResponse(200, SortByDiscount(r.applicable_coupons))
    /\ UNCHANGED <<coupons, cart, tier, exclusive_coupons, coupon_history, now, calls>>

-----------------------------------------------------------------------------
(* Coupon management *)

HasCoupon(coupon_id) == \E i \in 1..Len(coupons) : coupons[i].coupon_id = coupon_id

\* coupons_collection.find_one({"coupon_id": coupon_id}): the first match
FindOne(coupon_id) ==
    coupons[CHOOSE i \in 1..Len(coupons) :
               /\ coupons[i].coupon_id = coupon_id
               /\ \A j \in 1..(i - 1) : coupons[j].coupon_id # coupon_id]

\* coupon.dict() with the type taken from the keys of details.  The request
\* was validated by CouponCreate, so an omitted Optional field is stored with
\* its default: max_discount None, min_quantity 1, repetition_limit 1.
StoredCoupon(coupon) ==
    [coupon EXCEPT !.type =
        IF "product_ids" \in DOMAIN coupon.details THEN "product-wise"
        ELSE IF "threshold" \in DOMAIN coupon.details THEN "cart-wise"
        ELSE IF "buy_products" \in DOMAIN coupon.details THEN "bxgy"
        ELSE coupon.type]

\* the response of a management or cart handler: its status code alone
StatusResponse(status) == [handler |-> "management", status |-> status]

CreateCoupon(coupon) ==
    /\ IF HasCoupon(coupon.coupon_id)
       THEN /\ response' = StatusResponse(400)
            /\ UNCHANGED coupons
       ELSE /\ coupons' = Append(coupons, StoredCoupon(coupon))
            /\ response' = StatusResponse(200)
    /\ UNCHANGED <<cart, tier, exclusive_coupons, coupon_history, now, calls>>

\* update_one({"coupon_id": coupon_id}, {"$set": updates}): the fields of
\* updates replace those of the first matching document, unvalidated
SetFields(doc, updates) ==
    [f \in DOMAIN doc \cup DOMAIN updates |->
        IF f \in DOMAIN updates THEN updates[f] ELSE doc[f]]

UpdateCoupon(coupon_id, updates) ==
    /\ IF HasCoupon(coupon_id)
       THEN LET i == CHOOSE k \in 1..Len(coupons) :
                        /\ coupons[k].coupon_id = coupon_id
                        /\ \A j \in 1..(k - 1) : coupons[j].coupon_id # coupon_id
            IN /\ coupons' = [coupons EXCEPT ![i] = SetFields(coupons[i], updates)]
               /\ response' = StatusResponse(200)
       ELSE /\ response' = StatusResponse(404)
            /\ UNCHANGED coupons
    /\ UNCHANGED <<cart, tier, exclusive_coupons, coupon_history, now, calls>>

DeleteCoupon(coupon_id) ==
    /\ IF HasCoupon(coupon_id)
       THEN LET i == CHOOSE k \in 1..Len(coupons) :
                        /\ coupons[k].coupon_id = coupon_id
                        /\ \A j \in 1..(k - 1) : coupons[j].coupon_id # coupon_id
            IN /\ coupons' = SubSeq(coupons, 1, i - 1) \o SubSeq(coupons, i + 1, Len(coupons))
               /\ response' = StatusResponse(200)
       ELSE /\ response' = StatusResponse(404)
            /\ UNCHANGED coupons
    /\ UNCHANGED <<cart, tier, exclusive_coupons, coupon_history, now, calls>>

-----------------------------------------------------------------------------
(* Cart management *)

\* {"$set": {"cart.<product_id>": cart_item}}
SetCartItem(c, item) ==
    [p \in DOMAIN c \cup {item.product_id} |->
        IF p = item.product_id THEN item ELSE c[p]]

\* {"$unset": {"cart.<product_id>": ""}}
UnsetCartItem(c, product_id) == [p \in DOMAIN c \ {product_id} |-> c[p]]

AddToCart(customer_id, product_id, quantity, price) ==
    /\ IF product_id \notin Products
       THEN /\ response' = StatusResponse(404)
            /\ UNCHANGED cart
       ELSE /\ cart' = IF customer_id = TheCustomer
                       THEN SetCartItem(cart, CartItem(product_id, quantity, price))
                       ELSE cart
            /\ response' = StatusResponse(200)
    /\ UNCHANGED <<coupons, tier, exclusive_coupons, coupon_history, now, calls>>

RemoveFromCart(customer_id, product_id) ==
    /\ IF customer_id # TheCustomer
       THEN /\ response' = StatusResponse(404)
            /\ UNCHANGED cart
       ELSE /\ cart' = UnsetCartItem(cart, product_id)
            /\ response' = StatusResponse(200)
    /\ UNCHANGED <<coupons, tier, exclusive_coupons, coupon_history, now, calls>>

UpdateCartItem(customer_id, product_id, quantity) ==
    /\ IF customer_id # TheCustomer \/ product_id \notin DOMAIN cart
       THEN /\ response' = StatusResponse(404)
            /\ UNCHANGED cart
       ELSE /\ cart' = SetCartItem(cart, CartItem(product_id, quantity, cart[product_id].price))
            /\ response' = StatusResponse(200)
    /\ UNCHANGED <<coupons, tier, exclusive_coupons, coupon_history, now, calls>>

-----------------------------------------------------------------------------
(* apply_coupon *)

\* the recalculation of the discount: "discount = 0" and the branch of the
\* coupon's type
ApplyEvaluate(c, cart_total, coupon) ==
    IF coupon.type = "cart-wise" THEN
        IF cart_total >= coupon.details.threshold
        THEN CartWiseDiscount(cart_total, coupon.details)
        ELSE Value(0)
    ELSE IF coupon.type = "product-wise" THEN
        Value(ProductWiseDiscount(c, coupon.details))
    ELSE IF coupon.type = "bxgy" THEN
        Value(BxGy(c, coupon.details).discount)
    ELSE Value(0)

\* handler and coupon_id name the request a response answers
Rejected(coupon_id, status, detail) ==
    [handler |-> "apply_coupon", coupon_id |-> coupon_id, status |-> status,
     detail |-> detail]

\* "valid_until < now" read as "valid_until <= now"
ExpiredInclusive(coupon, t) == coupon.valid_until # None /\ coupon.valid_until[1] <= t

\* "coupon.get("valid_until") and coupon["valid_until"] < now": a datetime is
\* never false, so the first operand asks whether valid_until is there
Expired(coupon, t) == coupon.valid_until # None /\ coupon.valid_until[1] < t

\* the checks of apply_coupon up to "if discount <= 0", in their order; the
\* rejection, or "pass"
ApplyChecks(customer_id, coupon_id) ==
    IF customer_id # TheCustomer THEN Rejected(coupon_id, 404, "Customer not found")
    ELSE IF ~HasCoupon(coupon_id) THEN Rejected(coupon_id, 404, "Coupon not found")
    ELSE LET coupon == FindOne(coupon_id)
         IN IF ~coupon.is_active \/ coupon.valid_from > now
            THEN Rejected(coupon_id, 400, "Coupon is not active or not yet valid")
            ELSE IF Expired(coupon, now)
            THEN Rejected(coupon_id, 400, "Coupon has expired")
            ELSE IF tier \notin coupon.user_tiers
            THEN Rejected(coupon_id, 400, "This coupon is not valid for tier")
            ELSE IF DOMAIN cart = {} THEN Rejected(coupon_id, 400, "Cart is empty")
            ELSE LET d == ApplyEvaluate(cart, CartTotal(cart), coupon)
                 IN IF d.raised THEN Rejected(coupon_id, 500, "TypeError")
                    ELSE IF d.value <= 0
                    THEN Rejected(coupon_id, 400, "Coupon is not applicable to your cart")
                    ELSE Rejected(coupon_id, 200, "pass")

\* "usage_limit <= 0" read as "usage_limit < 0"
UsageExhaustedBelowZero(customer_exclusive_coupons, coupon_id) ==
    /\ coupon_id \in DOMAIN customer_exclusive_coupons
    /\ customer_exclusive_coupons[coupon_id] < 0

\* "if coupon_id in exclusive_coupons: ... if usage_limit <= 0", on the
\* customer document the handler read
UsageExhausted(customer_exclusive_coupons, coupon_id) ==
    /\ coupon_id \in DOMAIN customer_exclusive_coupons
    /\ customer_exclusive_coupons[coupon_id] <= 0

\* a decrement that takes one use from every exclusive coupon
DecrementUsageAll(stored, customer_exclusive_coupons, coupon_id) ==
    [c \in DOMAIN stored |-> stored[c] - 1]

\* a decrement made by the database on the stored counter ($inc)
DecrementUsageInPlace(stored, customer_exclusive_coupons, coupon_id) ==
    IF coupon_id \in DOMAIN customer_exclusive_coupons
    THEN [c \in DOMAIN stored \cup {coupon_id} |->
            IF c = coupon_id THEN stored[coupon_id] - 1 ELSE stored[c]]
    ELSE stored

\* {"$set": {"exclusive_coupons.<coupon_id>": usage_limit - 1}}: the stored
\* counters after the write, usage_limit being the value the handler read
DecrementUsage(stored, customer_exclusive_coupons, coupon_id) ==
    IF coupon_id \in DOMAIN customer_exclusive_coupons
    THEN [c \in DOMAIN stored \cup {coupon_id} |->
            IF c = coupon_id THEN customer_exclusive_coupons[coupon_id] - 1 ELSE stored[c]]
    ELSE stored

\* "final_price = cart_total + discount"
FinalPricePlus(cart_total, discount) == cart_total * Scale + discount

\* "final_price = cart_total - discount", in hundredths
FinalPrice(cart_total, discount) == cart_total * Scale - discount

DiscountSummary(coupon_id, coupon, discount, cart_total, applied_at) ==
    [coupon_id |-> coupon_id, coupon_type |-> coupon.type,
     discount_amount |-> discount, original_total |-> cart_total,
     final_total |-> FinalPrice(cart_total, discount), applied_at |-> applied_at]

AppliedResponse(coupon_id, discount, cart_total) ==
    [handler |-> "apply_coupon", coupon_id |-> coupon_id,
     status |-> 200, detail |-> "Coupon applied successfully",
     discount_amount |-> discount, original_total |-> cart_total,
     final_total |-> FinalPrice(cart_total, discount)]

UsageExhaustedResponse(coupon_id) ==
    Rejected(coupon_id, 400, "You have used all your exclusive coupons of this type")

\* the whole handler, run with no other request in between
ApplyCoupon(customer_id, coupon_id) ==
    /\ Len(coupon_history) < MaxHistory
    /\ LET checked == ApplyChecks(customer_id, coupon_id)
       IN IF checked.status # 200
          THEN /\ response' = checked
               /\ UNCHANGED <<exclusive_coupons, coupon_history>>
          ELSE LET coupon == FindOne(coupon_id)
                   cart_total == CartTotal(cart)
                   discount == ApplyEvaluate(cart, cart_total, coupon).value
               IN IF UsageExhausted(exclusive_coupons, coupon_id)
                  THEN /\ response' = UsageExhaustedResponse(coupon_id)
                       /\ UNCHANGED <<exclusive_coupons, coupon_history>>
                  ELSE /\ exclusive_coupons' =
                            DecrementUsage(exclusive_coupons, exclusive_coupons, coupon_id)
                       /\ coupon_history' = Append(coupon_history,
                            DiscountSummary(coupon_id, coupon, discount, cart_total, now))
                       /\ response' = AppliedResponse(coupon_id, discount, cart_total)
    /\ UNCHANGED <<coupons, cart, tier, now, calls>>

-----------------------------------------------------------------------------
(* apply_coupon run concurrently: a request reads the customer document    *)
(* once (line 302) and works on that copy; its two writes (lines 411 and   *)
(* 427) are database operations of their own, and other requests can run   *)
(* between the read and each write.                                        *)

CallIds == 1..MaxCalls

\* the locals of a request: where it is, and what it read and computed
Call(pc, coupon_id, customer_exclusive_coupons, coupon_type, discount, cart_total) ==
    [pc |-> pc, coupon_id |-> coupon_id, exclusive_coupons |-> customer_exclusive_coupons,
     coupon_type |-> coupon_type, discount |-> discount, cart_total |-> cart_total]

IdleCall == Call("idle", "", [c \in {} |-> 0], "", 0, 0)

\* lines 302-402: find_one of the customer and of the coupon, the checks and
\* the recalculation, all on the documents read
ApplyCouponRead(k, customer_id, coupon_id) ==
    /\ calls[k].pc = "idle"
    /\ LET checked == ApplyChecks(customer_id, coupon_id)
       IN IF checked.status # 200
          THEN /\ calls' = [calls EXCEPT ![k] =
                       Call("rejected", coupon_id, exclusive_coupons, "", 0, 0)]
               /\ response' = checked
          ELSE LET coupon == FindOne(coupon_id)
                   cart_total == CartTotal(cart)
                   discount == ApplyEvaluate(cart, cart_total, coupon).value
               IN /\ calls' = [calls EXCEPT ![k] =
                          Call("evaluated", coupon_id, exclusive_coupons, coupon.type,
                               discount, cart_total)]
                  /\ UNCHANGED response
    /\ UNCHANGED <<coupons, cart, tier, exclusive_coupons, coupon_history, now>>

\* lines 404-414: the test of the counter read at line 302 and the $set of
\* that value minus one
ApplyCouponDecrement(k) ==
    /\ calls[k].pc = "evaluated"
    /\ IF UsageExhausted(calls[k].exclusive_coupons, calls[k].coupon_id)
       THEN /\ calls' = [calls EXCEPT ![k].pc = "rejected"]
            /\ response' = UsageExhaustedResponse(calls[k].coupon_id)
            /\ UNCHANGED exclusive_coupons
       ELSE /\ exclusive_coupons' =
                 DecrementUsage(exclusive_coupons, calls[k].exclusive_coupons, calls[k].coupon_id)
            /\ calls' = [calls EXCEPT ![k].pc = "decremented"]
            /\ UNCHANGED response
    /\ UNCHANGED <<coupons, cart, tier, coupon_history, now>>

\* lines 416-437: the $push of the summary and the response
ApplyCouponPush(k) ==
    /\ calls[k].pc = "decremented"
    /\ coupon_history' = Append(coupon_history,
            DiscountSummary(calls[k].coupon_id, [type |-> calls[k].coupon_type],
                            calls[k].discount, calls[k].cart_total, now))
    /\ response' = AppliedResponse(calls[k].coupon_id, calls[k].discount, calls[k].cart_total)
    /\ calls' = [calls EXCEPT ![k].pc = "committed"]
    /\ UNCHANGED <<coupons, cart, tier, exclusive_coupons, now>>

-----------------------------------------------------------------------------
(* The requests the model sends *)

DefaultEnvelope(coupon_id, details) ==
    [coupon_id |-> coupon_id, type |-> "", details |-> details, is_active |-> TRUE,
     valid_from |-> 0, valid_until |-> None, user_tiers |-> AllTiers]

CartBasedCoupon(threshold, discount_percentage, max_discount) ==
    [threshold |-> threshold, discount_percentage |-> discount_percentage,
     max_discount |-> max_discount]

ProductBasedCoupon(product_ids, discount_percentage, min_quantity) ==
    [product_ids |-> product_ids, discount_percentage |-> discount_percentage,
     min_quantity |-> min_quantity]

BxGyCoupon(buy_products, buy_quantity, get_products, get_quantity, discount_percentage, repetition_limit) ==
    [buy_products |-> buy_products, buy_quantity |-> buy_quantity,
     get_products |-> get_products, get_quantity |-> get_quantity,
     discount_percentage |-> discount_percentage, repetition_limit |-> repetition_limit]

\* details as CouponCreate validates them, one family after the other
CartDetails ==
    {CartBasedCoupon(t, 50, m) : t \in {0, 3}, m \in {None, Some(0), Some(1)}}

ProductDetails ==
    {ProductBasedCoupon(ids, 50, q) :
        ids \in {<<"p1">>, <<"p1", "p2">>, <<"p2", "p2">>}, q \in {1, 2}}

BxGyDetails ==
    {BxGyCoupon(b, 2, g, gq, 100, r) :
        b \in {<<"p1">>, <<"p1", "p2">>},
        g \in {<<"p2", "p3">>, <<"p3", "p2">>, <<"p3", "p1", "p2">>},
        gq \in {1, 2},
        r \in {None, Some(0), Some(1)}}

\* details written by update_coupon, which validates nothing: a cart-wise
\* document without the max_discount key
RawCartDetails ==
    {[threshold |-> t, discount_percentage |-> 50] : t \in {0, 3}}

\* the requests of Spec: three coupon ids, a few details each
CreateRequests ==
    {DefaultEnvelope("A", CartBasedCoupon(0, 50, m)) : m \in {None, Some(0)}}
    \cup {DefaultEnvelope("B", ProductBasedCoupon(<<"p1">>, 50, 1))}
    \cup {DefaultEnvelope("C", BxGyCoupon(<<"p1">>, 2, <<"p3", "p2">>, 1, 100, Some(1)))}

UpdateRequests ==
    {<<"A", [details |-> [threshold |-> 0, discount_percentage |-> 50]]>>}

RequestCouponIds == {"A", "B", "C", "Z"}
ApplyCouponIds == {"E", "Z"}

-----------------------------------------------------------------------------
(* Spec: an empty coupons collection and a customer with an empty cart;    *)
(* coupons are created, updated and deleted, the cart is edited and the    *)
(* applicable coupons are listed.                                          *)

NoResponse == StatusResponse(0)

\* no apply_coupon request in flight
NoCalls == << >>

Init ==
    /\ coupons = << >>
    /\ cart = EmptyCart
    /\ tier = "Silver"
    /\ exclusive_coupons = [c \in {} |-> 0]
    /\ coupon_history = << >>
    /\ now = 1
    /\ response = NoResponse
    /\ calls = NoCalls

Next ==
    \/ \E coupon \in CreateRequests : CreateCoupon(coupon)
    \/ \E u \in UpdateRequests : UpdateCoupon(u[1], u[2])
    \/ \E coupon_id \in RequestCouponIds : DeleteCoupon(coupon_id)
    \/ \E customer_id \in RequestCustomerIds, product_id \in RequestProductIds,
          quantity \in Quantities, price \in Prices :
            AddToCart(customer_id, product_id, quantity, price)
    \/ \E customer_id \in RequestCustomerIds, product_id \in RequestProductIds :
            RemoveFromCart(customer_id, product_id)
    \/ \E customer_id \in RequestCustomerIds, product_id \in RequestProductIds,
          quantity \in Quantities :
            UpdateCartItem(customer_id, product_id, quantity)
    \/ \E customer_id \in RequestCustomerIds : GetApplicableCoupons(customer_id)

Spec == Init /\ [][Next]_vars

-----------------------------------------------------------------------------
(* SpecApply: the collection holds one coupon, of any family and details,  *)
(* and the customer any cart; the coupon is listed and applied.            *)

EvalCoupons ==
    {StoredCoupon(DefaultEnvelope("E", d)) : d \in CartDetails \cup ProductDetails \cup BxGyDetails}
    \cup {[DefaultEnvelope("E", d) EXCEPT !.type = "cart-wise"] : d \in RawCartDetails}

CartItems(p) == {CartItem(p, q, price) : q \in Quantities, price \in Prices}

Carts ==
    UNION {{c \in [S -> UNION {CartItems(p) : p \in S}] : \A p \in S : c[p].product_id = p}
              : S \in SUBSET Products}

InitApply ==
    /\ coupons \in {<<coupon>> : coupon \in EvalCoupons}
    /\ cart \in Carts
    /\ tier = "Silver"
    /\ exclusive_coupons = [c \in {} |-> 0]
    /\ coupon_history = << >>
    /\ now = 1
    /\ response = NoResponse
    /\ calls = NoCalls

NextApply ==
    \/ GetApplicableCoupons(TheCustomer)
    \/ ApplyCoupon(TheCustomer, "E")

SpecApply == InitApply /\ [][NextApply]_vars

-----------------------------------------------------------------------------
(* SpecChecks: the collection holds one coupon "E" with any activity flag, *)
(* validity window and tier set; the customer has either tier, one of a    *)
(* few carts and any exclusive counters; apply_coupon is called, one call  *)
(* after the other, by the customer and by an unknown one.                 *)

CheckedDetails ==
    {CartBasedCoupon(3, 50, Some(1)), CartBasedCoupon(0, 50, None),
     ProductBasedCoupon(<<"p2", "p2">>, 100, 1),
     BxGyCoupon(<<"p1">>, 2, <<"p1", "p2">>, 1, 100, Some(1))}

CheckedCoupons ==
    {[StoredCoupon(DefaultEnvelope("E", d)) EXCEPT
          !.is_active = a, !.valid_from = f, !.valid_until = u, !.user_tiers = t] :
        d \in CheckedDetails, a \in BOOLEAN, f \in {0, 1, 2},
        u \in {None, Some(0), Some(1), Some(2)}, t \in {{"Basic"}, AllTiers}}

CheckedCarts ==
    {EmptyCart,
     SetCartItem(EmptyCart, CartItem("p2", 1, 1)),
     SetCartItem(EmptyCart, CartItem("p3", 1, 1)),
     SetCartItem(SetCartItem(EmptyCart, CartItem("p1", 2, 1)), CartItem("p2", 1, 2))}

\* customer["exclusive_coupons"]: missing, or counters for "E", for another
\* coupon "F", or for both
ExclusiveCounters ==
    {[c \in {} |-> 0]}
    \cup {[c \in {"E"} |-> n] : n \in 0..2}
    \cup {[c \in {"F"} |-> 1], [c \in {"E", "F"} |-> 1]}

InitChecks ==
    /\ coupons \in {<<coupon>> : coupon \in CheckedCoupons}
    /\ cart \in CheckedCarts
    /\ tier \in Tiers
    /\ exclusive_coupons \in ExclusiveCounters
    /\ coupon_history = << >>
    /\ now = 1
    /\ response = NoResponse
    /\ calls = NoCalls

NextChecks ==
    \E customer_id \in RequestCustomerIds, coupon_id \in ApplyCouponIds :
        ApplyCoupon(customer_id, coupon_id)

SpecChecks == InitChecks /\ [][NextChecks]_vars

-----------------------------------------------------------------------------
(* SpecRace: MaxCalls apply_coupon requests of the customer for the same   *)
(* exclusive coupon "E", started with InitialUses uses left and run        *)
(* concurrently, with nothing that serializes them.                        *)

RaceCoupons ==
    {StoredCoupon(DefaultEnvelope("E", d)) :
        d \in {CartBasedCoupon(0, 50, Some(1)), ProductBasedCoupon(<<"p2">>, 50, 1),
               BxGyCoupon(<<"p1">>, 2, <<"p2">>, 1, 100, Some(1))}}

InitRace ==
    /\ coupons \in {<<coupon>> : coupon \in RaceCoupons}
    /\ cart \in CheckedCarts
    /\ tier = "Silver"
    /\ exclusive_coupons = [c \in {"E"} |-> InitialUses]
    /\ coupon_history = << >>
    /\ now = 1
    /\ response = NoResponse
    /\ calls = [k \in CallIds |-> IdleCall]

NextRace ==
    \/ \E k \in CallIds : ApplyCouponRead(k, TheCustomer, "E")
    \/ \E k \in CallIds : ApplyCouponDecrement(k)
    \/ \E k \in CallIds : ApplyCouponPush(k)

SpecRace == InitRace /\ [][NextRace]_vars

-----------------------------------------------------------------------------
(* Properties *)

ListedOK == response.handler = "get_applicable_coupons" /\ response.status = 200
Applied == response.handler = "apply_coupon" /\ response.status = 200
NotApplicable ==
    /\ response.handler = "apply_coupon"
    /\ response.detail = "Coupon is not applicable to your cart"

\* the entries of the listing that carry a coupon id
ListedAs(coupon_id) ==
    {i \in 1..Len(response.applicable_coupons) :
        response.applicable_coupons[i].coupon_id = coupon_id}

StoredCoupons == {coupons[i] : i \in 1..Len(coupons)}

IsCapped(coupon) ==
    /\ coupon.type = "cart-wise"
    /\ "max_discount" \in DOMAIN coupon.details
    /\ coupon.details.max_discount # None

\* the discount C1 states, in hundredths
CappedDiscount(total, details) ==
    IF total < details.threshold THEN 0
    ELSE IF total * details.discount_percentage <= details.max_discount[1] * Scale
         THEN total * details.discount_percentage
         ELSE details.max_discount[1] * Scale

\* C1: for a Cart-Threshold coupon with max_discount set, both handlers compute
\* discount 0 (not applicable) below the threshold and, from the threshold on
\* (inclusive), min(total * pct / 100, max_discount), never more than max_discount:
\* the listing names the coupon exactly when the threshold is met, with that
\* discount, and apply_coupon commits that discount or rejects a discount of 0.
C1_CartThresholdCapped ==
    \A coupon \in StoredCoupons :
        IsCapped(coupon) =>
            LET total == CartTotal(cart)
                expected == CappedDiscount(total, coupon.details)
            IN /\ expected <= coupon.details.max_discount[1] * Scale
               /\ ApplyEvaluate(cart, total, coupon) = Value(expected)
               /\ ListEvaluate(cart, total, coupon) =
                      IF total < coupon.details.threshold THEN Skip ELSE AppendWith(expected)
               /\ (ListedOK /\ DOMAIN cart # {}) =>
                      /\ (ListedAs(coupon.coupon_id) # {}) = (total >= coupon.details.threshold)
                      /\ \A i \in ListedAs(coupon.coupon_id) :
                             response.applicable_coupons[i].calculated_discount = expected
               /\ (Applied /\ response.coupon_id = coupon.coupon_id) =>
                      /\ response.discount_amount = expected
                      /\ total >= coupon.details.threshold
               /\ (NotApplicable /\ response.coupon_id = coupon.coupon_id) => expected = 0

\* C1 witness: apply_coupon committed a capped coupon whose cap was the smaller value
C1_Witness ==
    /\ Applied
    /\ \E coupon \in StoredCoupons :
          /\ IsCapped(coupon)
          /\ coupon.coupon_id = response.coupon_id
          /\ response.discount_amount = coupon.details.max_discount[1] * Scale
          /\ response.discount_amount < CartTotal(cart) * coupon.details.discount_percentage

IsUncapped(coupon) ==
    /\ coupon.type = "cart-wise"
    /\ ("max_discount" \notin DOMAIN coupon.details \/ coupon.details.max_discount = None)

\* C2: a Cart-Threshold coupon without max_discount, the one create_coupon stores
\* from a request that omitted it included, is evaluated without a cap: with the
\* threshold met the listing completes and names the coupon with exactly
\* total * pct / 100.
C2_NoCapWhenAbsent ==
    \A coupon \in StoredCoupons :
        (/\ IsUncapped(coupon)
         /\ response.handler = "get_applicable_coupons"
         /\ response.status # 404
         /\ DOMAIN cart # {}
         /\ MatchesQuery(coupon, tier, now)
         /\ CartTotal(cart) >= coupon.details.threshold)
        => /\ response.status = 200
           /\ \E i \in ListedAs(coupon.coupon_id) :
                 response.applicable_coupons[i].calculated_discount =
                     CartTotal(cart) * coupon.details.discount_percentage

\* how often a product id is listed in product_ids
Multiplicity(ids, p) == Cardinality({i \in 1..Len(ids) : ids[i] = p})

Qualifies(c, details, p) ==
    p \in DOMAIN c /\ c[p].quantity >= MinQuantity(details)

RECURSIVE SumContributions(_, _, _)
SumContributions(c, details, S) ==
    IF S = {} THEN 0
    ELSE LET p == CHOOSE x \in S : TRUE
         IN (IF Qualifies(c, details, p)
             THEN Multiplicity(details.product_ids, p) * c[p].subtotal
                      * details.discount_percentage
             ELSE 0)
            + SumContributions(c, details, S \ {p})

\* the discount C3 states: one contribution for every listing of a qualifying product
PerProductSum(c, details) == SumContributions(c, details, Range(details.product_ids))

\* C3: the Per-Product discount is the sum of subtotal * pct / 100 over the listed
\* product ids that are in the cart with quantity >= min_quantity; a listed product
\* that is absent or below min_quantity adds nothing and does not disqualify the
\* coupon, and removing a product that does not qualify from the cart leaves the
\* discount as it was.  Both handlers report that sum.
C3_PerProductSum ==
    \A coupon \in StoredCoupons :
        coupon.type = "product-wise" =>
            LET details == coupon.details
                expected == PerProductSum(cart, details)
            IN /\ ProductWiseDiscount(cart, details) = expected
               /\ \A p \in DOMAIN cart :
                      ~Qualifies(cart, details, p) =>
                          ProductWiseDiscount(UnsetCartItem(cart, p), details) = expected
               /\ (ListedOK /\ DOMAIN cart # {}) =>
                      /\ (ListedAs(coupon.coupon_id) # {}) = (expected > 0)
                      /\ \A i \in ListedAs(coupon.coupon_id) :
                             response.applicable_coupons[i].calculated_discount = expected
               /\ (Applied /\ response.coupon_id = coupon.coupon_id) =>
                      response.discount_amount = expected
               /\ (NotApplicable /\ response.coupon_id = coupon.coupon_id) => expected = 0

\* C3 witness: a Per-Product coupon was applied although one listed product is in
\* the cart below min_quantity and another listed product qualifies
C3_Witness ==
    /\ Applied
    /\ \E coupon \in StoredCoupons :
          /\ coupon.type = "product-wise"
          /\ coupon.coupon_id = response.coupon_id
          /\ \E p, q \in Range(coupon.details.product_ids) :
                /\ p \in DOMAIN cart
                /\ ~Qualifies(cart, coupon.details, p)
                /\ Qualifies(cart, coupon.details, q)
          /\ response.discount_amount > 0

IsBxGy(coupon) == coupon.type = "bxgy"

RECURSIVE SumCartQuantities(_, _)
SumCartQuantities(c, S) ==
    IF S = {} THEN 0
    ELSE LET p == CHOOSE x \in S : TRUE
         IN c[p].quantity + SumCartQuantities(c, S \ {p})

\* the buy_units C4 states: the floor of the eligible quantity over buy_quantity,
\* and the smaller of that and repetition_limit when repetition_limit is set
StatedBuyUnits(c, details) ==
    LET eligible_buy_qty ==
            SumCartQuantities(c, Range(details.buy_products) \cap DOMAIN c)
        units == eligible_buy_qty \div details.buy_quantity
    IN IF "repetition_limit" \in DOMAIN details /\ details.repetition_limit # None
       THEN Min2(units, details.repetition_limit[1])
       ELSE units

StatedInapplicable(c, details) ==
    \/ StatedBuyUnits(c, details) = 0
    \/ Range(details.buy_products) \cap DOMAIN c = {}
    \/ Range(details.get_products) \cap DOMAIN c = {}

\* C4: buy_units is floor(eligible_buy_qty / buy_quantity), eligible_buy_qty the
\* sum of the cart quantities of the buy products in the cart, cut to
\* repetition_limit when that is set; with buy_units = 0, no buy product or no get
\* product in the cart the coupon is not applicable (neither listed nor applied),
\* otherwise total_get_units = buy_units * get_quantity.
C4_BuyUnits ==
    \A coupon \in StoredCoupons :
        IsBxGy(coupon) =>
            LET b == BxGy(cart, coupon.details)
            IN /\ (ListedOK /\ ListedAs(coupon.coupon_id) # {}) =>
                      /\ ~StatedInapplicable(cart, coupon.details)
                      /\ b.buy_units = StatedBuyUnits(cart, coupon.details)
                      /\ b.total_get_units = b.buy_units * coupon.details.get_quantity
               /\ (Applied /\ response.coupon_id = coupon.coupon_id) =>
                      /\ ~StatedInapplicable(cart, coupon.details)
                      /\ b.buy_units = StatedBuyUnits(cart, coupon.details)
                      /\ b.total_get_units = b.buy_units * coupon.details.get_quantity

\* what holds of buy_units in the code: the limit counts only when it is not 0
C4_BuyUnitsWhenLimitNotZero ==
    \A coupon \in StoredCoupons :
        (IsBxGy(coupon) /\ coupon.details.repetition_limit # Some(0)) =>
            LET b == BxGy(cart, coupon.details)
                stated == StatedBuyUnits(cart, coupon.details)
            IN /\ b.entered = ~StatedInapplicable(cart, coupon.details)
               /\ b.entered => /\ b.buy_units = stated
                               /\ b.total_get_units = stated * coupon.details.get_quantity
               /\ ~b.entered => b.discount = 0

SumSeq(seq, i) ==
    LET F[k \in 0..Len(seq)] == IF k = 0 THEN 0 ELSE seq[k] + F[k - 1]
    IN F[i]

\* C5: the allocation walks the get-candidates cheapest first; each candidate
\* gives min(its cart quantity, units still needed) units at
\* units * unit_price * pct / 100, until total_get_units units are allocated or
\* the candidates run out; after every step and at the end
\* units_discounted <= total_get_units, and no candidate gives more units than
\* its cart quantity.
C5_GreedyAllocation ==
    \A coupon \in StoredCoupons :
        IsBxGy(coupon) =>
            LET details == coupon.details
                b == BxGy(cart, details)
                steps == b.steps
                candidates == Range(details.get_products) \cap DOMAIN cart
                Before(k) == IF k = 1 THEN 0 ELSE steps[k - 1].units_discounted
                Given(p) == SumSeq([k \in 1..Len(steps) |->
                                       IF steps[k].pid = p THEN steps[k].units_to_discount ELSE 0],
                                   Len(steps))
            IN b.entered =>
                /\ \A k \in 1..Len(steps) :
                      /\ steps[k].pid \in candidates
                      /\ steps[k].price = cart[steps[k].pid].price
                      /\ steps[k].units_to_discount =
                             Min2(cart[steps[k].pid].quantity, b.total_get_units - Before(k))
                      /\ steps[k].units_to_discount > 0
                      /\ steps[k].units_discounted = Before(k) + steps[k].units_to_discount
                      /\ steps[k].units_discounted <= b.total_get_units
                      /\ k > 1 => steps[k - 1].price <= steps[k].price
                /\ \A p \in candidates : Given(p) <= cart[p].quantity
                \* cheapest first: a candidate is touched only when every cheaper one is used up
                /\ \A p, q \in candidates :
                      (cart[p].price < cart[q].price /\ Given(q) > 0) =>
                          Given(p) = cart[p].quantity
                /\ b.units_discounted <= b.total_get_units
                /\ b.units_discounted =
                       Min2(b.total_get_units, SumCartQuantities(cart, candidates))
                /\ b.discount =
                       SumSeq([k \in 1..Len(steps) |->
                                  steps[k].units_to_discount * steps[k].price
                                      * details.discount_percentage],
                              Len(steps))
                /\ (Applied /\ response.coupon_id = coupon.coupon_id) =>
                       response.discount_amount = b.discount
                /\ (ListedOK /\ ListedAs(coupon.coupon_id) # {}) =>
                       \A i \in ListedAs(coupon.coupon_id) :
                           response.applicable_coupons[i].calculated_discount = b.discount

\* C5 witness: a Buy-Get coupon was applied whose walk took all of the cheaper
\* candidate and then only part of the dearer one
C5_Witness ==
    /\ Applied
    /\ \E coupon \in StoredCoupons :
          /\ IsBxGy(coupon)
          /\ coupon.coupon_id = response.coupon_id
          /\ LET b == BxGy(cart, coupon.details)
             IN /\ Len(b.steps) = 2
                /\ b.steps[1].price < b.steps[2].price
                /\ b.steps[2].units_to_discount < cart[b.steps[2].pid].quantity
                /\ b.units_discounted = b.total_get_units

\* C6: a Buy-Get coupon whose repetition_limit is 0 yields no discount: the listing
\* does not name it and apply_coupon rejects it as not applicable, whatever the cart.
C6_ZeroLimitNoDiscount ==
    \A coupon \in StoredCoupons :
        (IsBxGy(coupon) /\ coupon.details.repetition_limit = Some(0)) =>
            /\ ListedOK => ListedAs(coupon.coupon_id) = {}
            /\ (response.handler = "apply_coupon" /\ response.coupon_id = coupon.coupon_id) =>
                   /\ response.status # 200
                   /\ (response.status # 404 /\ DOMAIN cart # {}) => NotApplicable

\* C7: with the get-candidates, get_quantity and the percentage held fixed, the
\* Buy-Get discount does not decrease when buy_units grows: the allocation for b1
\* units never exceeds the allocation for b2 >= b1 units, and the discount a
\* handler reports for its buy_units is at least that of every smaller buy_units.
C7_MonotoneInBuyUnits ==
    \A coupon \in StoredCoupons :
        IsBxGy(coupon) =>
            LET details == coupon.details
                keys == EligibleGetProducts(cart, details)
                b == BxGy(cart, details)
                discount == [units \in 0..MaxUnits |->
                                Allocation(cart, keys, units, details).discount]
            IN /\ \A b1, b2 \in 0..MaxUnits : b1 <= b2 => discount[b1] <= discount[b2]
               /\ (Applied /\ response.coupon_id = coupon.coupon_id) =>
                      \A b1 \in 0..b.buy_units :
                          Allocation(cart, keys, b1, details).discount
                              <= response.discount_amount

\* C7 witness: a Buy-Get coupon was applied with buy_units = 2, and one unit less
\* would have given a smaller discount
C7_Witness ==
    /\ Applied
    /\ \E coupon \in StoredCoupons :
          /\ IsBxGy(coupon)
          /\ coupon.coupon_id = response.coupon_id
          /\ LET b == BxGy(cart, coupon.details)
             IN /\ b.buy_units = 2
                /\ Allocation(cart, EligibleGetProducts(cart, coupon.details), 1,
                              coupon.details).discount < response.discount_amount

\* the place of a product id in get_products (its first occurrence)
FirstIndex(ids, p) == CHOOSE i \in 1..Len(ids) : ids[i] = p /\ \A j \in 1..(i - 1) : ids[j] # p

\* C8 as stated: the get-candidates are walked in ascending unit price, ties in
\* ascending product id, whatever the order of get_products.
C8_TiesByProductId ==
    \A coupon \in StoredCoupons :
        (IsBxGy(coupon) /\ Applied /\ response.coupon_id = coupon.coupon_id) =>
            LET sorted == BxGy(cart, coupon.details).sorted_get_products
            IN \A i, j \in 1..Len(sorted) :
                   i < j =>
                       \/ sorted[i].price < sorted[j].price
                       \/ /\ sorted[i].price = sorted[j].price
                          /\ PidRank[sorted[i].pid] < PidRank[sorted[j].pid]

\* get_products in every order
Reorderings(ids) ==
    {[i \in 1..Len(ids) |-> ids[f[i]]] : f \in Permutations(1..Len(ids))}

\* C8 amended: the get-candidates are walked in ascending unit price, candidates of
\* equal price in the order in which get_products first lists them; reordering
\* get_products can change which of two candidates of equal price comes first, but
\* neither the units discounted nor the discount.
C8_TiesByListingOrder ==
    \A coupon \in StoredCoupons :
        IsBxGy(coupon) =>
            LET details == coupon.details
                b == BxGy(cart, details)
                sorted == b.sorted_get_products
            IN /\ b.entered =>
                      /\ {sorted[i].pid : i \in 1..Len(sorted)} =
                             Range(details.get_products) \cap DOMAIN cart
                      /\ \A i, j \in 1..Len(sorted) :
                             i < j =>
                                 \/ sorted[i].price < sorted[j].price
                                 \/ /\ sorted[i].price = sorted[j].price
                                    /\ FirstIndex(details.get_products, sorted[i].pid)
                                           < FirstIndex(details.get_products, sorted[j].pid)
                      /\ \A k \in 1..Len(b.steps) :
                             \E i \in 1..Len(sorted) :
                                 /\ sorted[i].pid = b.steps[k].pid
                                 /\ k > 1 => \E h \in 1..(i - 1) : sorted[h].pid = b.steps[k - 1].pid
               /\ \A ids \in Reorderings(details.get_products) :
                      LET other == BxGy(cart, [details EXCEPT !.get_products = ids])
                      IN /\ other.entered = b.entered
                         /\ other.discount = b.discount
                         /\ other.units_discounted = b.units_discounted

\* C8 witness: a Buy-Get coupon was applied, two candidates had the same price, and
\* the one with the larger product id was walked first
C8_Witness ==
    /\ Applied
    /\ \E coupon \in StoredCoupons :
          /\ IsBxGy(coupon)
          /\ coupon.coupon_id = response.coupon_id
          /\ LET b == BxGy(cart, coupon.details)
             IN /\ Len(b.steps) = 2
                /\ b.steps[1].price = b.steps[2].price
                /\ PidRank[b.steps[1].pid] > PidRank[b.steps[2].pid]

\* the place of a coupon in the collection, the order in which find() supplies it
Position(coupon_id) == CHOOSE i \in 1..Len(coupons) : coupons[i].coupon_id = coupon_id

\* C9: get_applicable_coupons returns the applicable coupons, each once, sorted by
\* calculated discount in descending order, and two coupons of equal discount stand
\* in the order in which the collection supplied them.
C9_SortedStable ==
    ListedOK =>
        LET list == response.applicable_coupons
        IN /\ \A i, j \in 1..Len(list) :
                  i < j =>
                      /\ list[i].calculated_discount >= list[j].calculated_discount
                      /\ list[i].calculated_discount = list[j].calculated_discount =>
                             Position(list[i].coupon_id) < Position(list[j].coupon_id)
           /\ DOMAIN cart # {} =>
                  \A coupon \in StoredCoupons :
                      Cardinality(ListedAs(coupon.coupon_id)) =
                          IF MatchesQuery(coupon, tier, now)
                             /\ ListEvaluate(cart, CartTotal(cart), coupon).append
                          THEN 1 ELSE 0

\* C9 witness: three coupons are listed, two of them with the same discount, and the
\* listing is not in the order of the collection
C9_Witness ==
    /\ ListedOK
    /\ LET list == response.applicable_coupons
       IN /\ Len(list) = 3
          /\ list[1].calculated_discount > list[2].calculated_discount
          /\ list[2].calculated_discount = list[3].calculated_discount
          /\ Position(list[1].coupon_id) > Position(list[3].coupon_id)

\* C10: every coupon get_applicable_coupons returns, of any family, has a
\* calculated discount greater than 0.
C10_ListedDiscountPositive ==
    ListedOK =>
        \A i \in 1..Len(response.applicable_coupons) :
            response.applicable_coupons[i].calculated_discount > 0

\* what holds in the code: the Per-Product and Buy-Get coupons listed have a
\* discount greater than 0, a Cart-Threshold coupon one that is not negative
C10_ListedDiscountPositiveButCartWise ==
    ListedOK =>
        \A i \in 1..Len(response.applicable_coupons) :
            /\ response.applicable_coupons[i].calculated_discount >= 0
            /\ response.applicable_coupons[i].type # "cart-wise" =>
                   response.applicable_coupons[i].calculated_discount > 0

-----------------------------------------------------------------------------
(* apply_coupon: the checks before a commit *)

\* the response answers an apply_coupon call of the customer for coupon "E"
AppliedTo(coupon_id) ==
    /\ response.handler = "apply_coupon"
    /\ response.coupon_id = coupon_id
    /\ response.detail # "Customer not found"

Committed == Applied

\* the reason the claim gives for the first condition that fails, "none" when
\* all six hold, "error" when the discount could not be computed
StatedRejection(coupon) ==
    LET d == ApplyEvaluate(cart, CartTotal(cart), coupon)
    IN IF ~coupon.is_active \/ ~(coupon.valid_from <= now)
       THEN "Coupon is not active or not yet valid"
       ELSE IF ~(coupon.valid_until = None \/ coupon.valid_until[1] >= now)
       THEN "Coupon has expired"
       ELSE IF tier \notin coupon.user_tiers THEN "This coupon is not valid for tier"
       ELSE IF DOMAIN cart = {} THEN "Cart is empty"
       ELSE IF d.raised THEN "error"
       ELSE IF ~(d.value > 0) THEN "Coupon is not applicable to your cart"
       ELSE "none"

\* C11: apply_coupon commits (success response, one more history entry) only
\* if the coupon is active, valid_from <= now, valid_until is absent or >= now,
\* the customer's tier is in the coupon's tier set, the cart is not empty and
\* the recomputed discount is > 0; when one of them fails the call is rejected
\* with the reason of the first that fails, and it is rejected with one of
\* these reasons only when that condition fails.
C11_CommitsOnlyWhenChecksHold ==
    (AppliedTo("E") /\ HasCoupon("E")) =>
        LET stated == StatedRejection(FindOne("E"))
        IN /\ Committed =>
                /\ stated = "none"
                /\ coupon_history # << >>
                /\ coupon_history[Len(coupon_history)].coupon_id = "E"
           /\ stated \notin {"none", "error"} =>
                response.status = 400 /\ response.detail = stated
           /\ stated = "none" =>
                \/ Committed
                \/ response = UsageExhaustedResponse("E")

\* a call committed on the first and last instant of the validity window
C11_Witness ==
    /\ AppliedTo("E")
    /\ Committed
    /\ FindOne("E").valid_until = Some(now)
    /\ FindOne("E").valid_from = now
    /\ Len(coupon_history) = 1

-----------------------------------------------------------------------------
(* apply_coupon: its outcomes and what a rejection leaves behind *)

\* a step that answers an apply_coupon call
ApplyCall == response'.handler = "apply_coupon"

\* the reasons a rejection carries
StatedReasons ==
    {"Customer not found", "Coupon not found", "Coupon is not active or not yet valid",
     "Coupon has expired", "This coupon is not valid for tier", "Cart is empty",
     "Coupon is not applicable to your cart",
     "You have used all your exclusive coupons of this type"}

CommitStep ==
    /\ response'.status = 200
    /\ Len(coupon_history') = Len(coupon_history) + 1
    /\ SubSeq(coupon_history', 1, Len(coupon_history)) = coupon_history

StoredStateUnchanged ==
    UNCHANGED <<coupons, cart, tier, exclusive_coupons, coupon_history>>

\* C12: every apply_coupon call ends either committed or rejected with one of
\* the reasons (not found, not active, expired, tier ineligible, empty cart,
\* not applicable, usage exhausted), and a rejected call leaves the stored
\* state as it was: no exclusive counter is decremented and nothing is
\* appended to coupon_history.
C12_RejectedOrCommitted ==
    [][ApplyCall =>
          \/ CommitStep
          \/ /\ response'.status \in {400, 404}
             /\ response'.detail \in StatedReasons
             /\ StoredStateUnchanged]_vars

\* the part of C12 that holds for every call: one that does not commit,
\* whatever its status, leaves the stored state as it was
C12_NoCommitLeavesStateUnchanged ==
    [][ApplyCall =>
          \/ CommitStep
          \/ response'.status # 200 /\ StoredStateUnchanged]_vars

\* C12 but for the calls that end in the TypeError of a cart-wise coupon
\* stored with max_discount None
C12_RejectedOrCommittedButTypeError ==
    [][(ApplyCall /\ response'.detail # "TypeError") =>
          \/ CommitStep
          \/ /\ response'.status \in {400, 404}
             /\ response'.detail \in StatedReasons
             /\ StoredStateUnchanged]_vars

-----------------------------------------------------------------------------
(* apply_coupon: the exclusive-usage counters *)

\* a step that answers a call of the customer for a coupon of the collection
ApplyCallFor(coupon_id) ==
    /\ ApplyCall
    /\ response'.coupon_id = coupon_id
    /\ response'.detail # "Customer not found"
    /\ HasCoupon(coupon_id)

\* C13: when the coupon is registered as exclusive for the customer with a
\* counter <= 0, apply_coupon is rejected as usage exhausted although the
\* coupon is active, inside its window, tier-eligible and worth a positive
\* discount on the cart; nothing is committed and the counter keeps its value.
C13_UsageExhausted ==
    [][(/\ ApplyCallFor("E")
        /\ "E" \in DOMAIN exclusive_coupons
        /\ exclusive_coupons["E"] <= 0
        /\ StatedRejection(FindOne("E")) = "none") =>
            /\ response' = UsageExhaustedResponse("E")
            /\ coupon_history' = coupon_history
            /\ exclusive_coupons' = exclusive_coupons]_vars

\* a call was rejected as usage exhausted after the one that used the last use
C13_Witness ==
    /\ AppliedTo("E")
    /\ response = UsageExhaustedResponse("E")
    /\ exclusive_coupons["E"] = 0
    /\ Len(coupon_history) = 1
    /\ StatedRejection(FindOne("E")) = "none"

\* C14: a committed apply_coupon of a coupon registered as exclusive takes
\* exactly one from that coupon's counter and leaves every other counter; a
\* committed apply_coupon of a coupon that is not registered leaves all
\* counters as they were.
C14_DecrementsOwnCounterByOne ==
    [][(ApplyCallFor("E") /\ CommitStep) =>
          IF "E" \in DOMAIN exclusive_coupons
          THEN /\ DOMAIN exclusive_coupons' = DOMAIN exclusive_coupons
               /\ exclusive_coupons'["E"] = exclusive_coupons["E"] - 1
               /\ \A c \in DOMAIN exclusive_coupons \ {"E"} :
                      exclusive_coupons'[c] = exclusive_coupons[c]
          ELSE exclusive_coupons' = exclusive_coupons]_vars

\* a commit of "E" with counters for "E" and for another coupon
C14_Witness ==
    /\ AppliedTo("E")
    /\ Committed
    /\ DOMAIN exclusive_coupons = {"E", "F"}
    /\ exclusive_coupons["E"] = 0
    /\ exclusive_coupons["F"] = 1
    /\ Len(coupon_history) = 1

-----------------------------------------------------------------------------
(* apply_coupon: the history entry of a commit *)

\* C16: every committed apply_coupon appends exactly one entry to
\* coupon_history; the entry and the response have discount_amount > 0,
\* original_total = the sum of the cart's line subtotals and final_total =
\* original_total - discount_amount (amounts in hundredths); a call that does
\* not commit appends nothing, so the history, empty at first, is as long as
\* the number of committed calls.
C16_OneEntryPerCommit ==
    /\ coupon_history = << >>
    /\ [][ApplyCall =>
            IF response'.status = 200
            THEN /\ Len(coupon_history') = Len(coupon_history) + 1
                 /\ SubSeq(coupon_history', 1, Len(coupon_history)) = coupon_history
                 /\ LET entry == coupon_history'[Len(coupon_history')]
                    IN /\ entry.coupon_id = response'.coupon_id
                       /\ entry.discount_amount > 0
                       /\ entry.original_total = CartTotal(cart)
                       /\ entry.final_total =
                              entry.original_total * Scale - entry.discount_amount
                       /\ response'.discount_amount = entry.discount_amount
                       /\ response'.original_total = entry.original_total
                       /\ response'.final_total = entry.final_total
            ELSE coupon_history' = coupon_history]_vars

\* a second commit: two entries, the last with a positive discount
C16_Witness ==
    /\ Applied
    /\ Len(coupon_history) = 2
    /\ coupon_history[2].discount_amount > 0
    /\ coupon_history[2].final_total < coupon_history[2].original_total * Scale

-----------------------------------------------------------------------------
(* apply_coupon: the counter of an exclusive coupon over a sequence of calls *)

\* the committed applies of a coupon: its entries in a history
CommitsOf(history, coupon_id) ==
    Cardinality({i \in 1..Len(history) : history[i].coupon_id = coupon_id})

\* C17: with the apply_coupon calls of the customer run one at a time, the
\* counter of an exclusive coupon that started at n >= 0 is never negative
\* and the committed applies of the coupon never exceed n: the history is
\* empty at first and every step keeps counter + committed applies.
C17_SerializedCounter ==
    /\ coupon_history = << >>
    /\ \A c \in DOMAIN exclusive_coupons : exclusive_coupons[c] >= 0
    /\ [](\A c \in DOMAIN exclusive_coupons : exclusive_coupons[c] >= 0)
    /\ [][/\ DOMAIN exclusive_coupons' = DOMAIN exclusive_coupons
          /\ \A c \in DOMAIN exclusive_coupons :
                 exclusive_coupons'[c] + CommitsOf(coupon_history', c) =
                 exclusive_coupons[c] + CommitsOf(coupon_history, c)]_vars

\* the counter is used up: two commits from a counter of 2
C17_Witness ==
    /\ Applied
    /\ "E" \in DOMAIN exclusive_coupons
    /\ exclusive_coupons["E"] = 0
    /\ CommitsOf(coupon_history, "E") = 2

-----------------------------------------------------------------------------
(* apply_coupon: the discount against the cart total *)

\* C18: for a cart with quantities and prices >= 0 and subtotal = quantity *
\* price, and a coupon of any family with discount_percentage in (0, 100], a
\* committed apply_coupon has discount_amount <= original_total, that is
\* final_total >= 0 (amounts in hundredths).
C18_DiscountAtMostTotal ==
    (Applied /\ HasCoupon(response.coupon_id)) =>
        LET details == FindOne(response.coupon_id).details
        IN (details.discount_percentage > 0 /\ details.discount_percentage <= 100) =>
              /\ response.discount_amount <= response.original_total * Scale
              /\ response.final_total >= 0

\* product_ids names no product twice
NoRepeatedId(ids) == \A i, j \in 1..Len(ids) : ids[i] = ids[j] => i = j

\* C18 but for a Per-Product coupon whose product_ids repeats an id
C18_DiscountAtMostTotalButRepeatedIds ==
    (Applied /\ HasCoupon(response.coupon_id)) =>
        LET coupon == FindOne(response.coupon_id)
        IN (/\ coupon.details.discount_percentage > 0
            /\ coupon.details.discount_percentage <= 100
            /\ coupon.type = "product-wise" => NoRepeatedId(coupon.details.product_ids)) =>
              /\ response.discount_amount <= response.original_total * Scale
              /\ response.final_total >= 0

-----------------------------------------------------------------------------
(* apply_coupon: concurrent calls for the same exclusive coupon *)

\* the requests that have written the counter of "E"
Writers == {k \in CallIds : calls[k].pc \in {"decremented", "committed"}}

CommittedCalls == {k \in CallIds : calls[k].pc = "committed"}

\* the counter a request read at line 302
UsageLimit(k) == calls[k].exclusive_coupons["E"]

\* two requests read the same counter value and both wrote
SameRead == \E i, j \in Writers : i # j /\ UsageLimit(i) = UsageLimit(j)

\* by how much the stored counter went down
Decrease == InitialUses - exclusive_coupons["E"]

\* C15: apply_coupon calls of one customer for the same exclusive coupon, run
\* concurrently, race: each reads the counter and later writes back the value
\* it read minus one, so the stored counter is always some writer's read
\* value minus one; it never went down by more than the number of writers,
\* and it went down by less exactly when two writers read the same value.
\* Once such calls have committed, the commits exceed the decrease (two
\* commits from a counter of 1, which ends at 0).
C15_LostUpdate ==
    /\ Writers # {} => \E k \in Writers : exclusive_coupons["E"] = UsageLimit(k) - 1
    /\ Decrease <= Cardinality(Writers)
    /\ SameRead <=> Decrease < Cardinality(Writers)
    /\ (SameRead /\ Writers = CommittedCalls) =>
           CommitsOf(coupon_history, "E") > Decrease

\* both requests read a counter of 1 and both committed: two history entries
\* for a counter that went from 1 to 0
C15_Witness ==
    /\ CommittedCalls = {1, 2}
    /\ UsageLimit(1) = UsageLimit(2)
    /\ CommitsOf(coupon_history, "E") = 2
    /\ Decrease = 1

====
